---- MODULE Spec2Model ----
(***************************************************************************)
(* Model of the opening-repertoire builder of src/openings.py: the build   *)
(* loop with its frontier deque, prune, get_opposing_moves, find_best_move *)
(* and the winrate heuristic.                                              *)
(*                                                                         *)
(* The three external collaborators are modelled as follows.               *)
(*  - python-chess (chess.Board): a board is its move stack.  Each side    *)
(*    owns the moves of Moves and may play each of them once; move        *)
(*    EnPassant is legal only as the immediate answer to the opponent's    *)
(*    move DoublePush; MatingMove mates a side that has played its own.    *)
(*    board_fen() is the pair of move sets (the piece                      *)
(*    placement: it forgets the order of the moves), fen() adds the state  *)
(*    that depends on the order (here: the last move played, standing for  *)
(*    the en-passant/castling fields and the halfmove clock) and the ply   *)
(*    (side to move and fullmove number).                                  *)
(*  - the lichess explorer: a snapshot `corpus` that gives every position  *)
(*    class one of the response Profiles; the response to a FEN is a       *)
(*    function of the FEN alone, as functools.cache makes it.              *)
(*  - stockfish: a deterministic evaluation selected by `engine`: it likes  *)
(*    the higher-numbered moves, or it likes to copy the opponent's move.  *)
(* Probabilities are fixed-point numbers in thousandths.                   *)
(*                                                                         *)
(* Spec follows build on a service that answers every lookup.  CallSpec    *)
(* follows one call of get_moves_table, get_opposing_moves or winrate      *)
(* through the retry loop of the lookup, with the answers (document, 429,  *)
(* error) the explorer may give; LookupSpec is that call run to its end.   *)
(***************************************************************************)
EXTENDS Integers, Sequences, FiniteSets, TLC

\* ------------------------------------------------------------------ bounds
MaxPlyLimit == 3
MaxPruneFactor == 2
MaxMinMoves == 11

\* ------------------------------------------------------- program constants
WHITE == 1
BLACK == 0
MinGames == 200
OppMinGames == 200
PruneMinTotal == 200
HugeCount == 100000
BestMinPct == 5
OppMinPct == 50
OppMinMoves == 2
OppCap == 10
PassNeeded == 3
TopPassing == 5
TopOverall == 3
FewCandidates == 2
DropPct == 95
MarginalGain == 10
AbsoluteFloor == 450
ServiceMoves == 10
MaxTries == 3
RateLimitPause == 60
RetryPause == 300

\* ------------------------------------------------------------ rules engine
Moves == 1..4
DoublePush == 1
EnPassant == 3
MatingMove == 4

Colors == {WHITE, BLACK}

Last(s) == s[Len(s)]

ply_of(b) == Len(b)

turn(b) == IF Len(b) % 2 = 0 THEN WHITE ELSE BLACK

\* the moves side c has played: White's are the odd entries of the stack
Played(b, c) ==
    {b[k] : k \in {i \in 1..Len(b) : (i % 2 = 1) <=> (c = WHITE)}}

\* the state of a position that depends on the order of the moves
Aux(b) == IF Len(b) = 0 THEN 0 ELSE Last(b)

board_fen(b) == <<Played(b, WHITE), Played(b, BLACK)>>

fen(b) == <<Played(b, WHITE), Played(b, BLACK), Aux(b), Len(b)>>

\* the side to move is mated: the opponent has just played MatingMove, which
\* mates a side that has spent its own
is_checkmate(b) == Aux(b) = MatingMove /\ MatingMove \in Played(b, turn(b))

IsLegal(b, m) ==
    /\ m \in Moves
    /\ ~is_checkmate(b)
    /\ m \notin Played(b, turn(b))
    /\ (m = EnPassant => Aux(b) = DoublePush)

RECURSIVE SetToSeq(_)
SetToSeq(S) ==
    IF S = {} THEN <<>>
    ELSE LET x == CHOOSE y \in S : \A z \in S : y <= z
         IN <<x>> \o SetToSeq(S \ {x})

legal_moves(b) == SetToSeq({m \in Moves : IsLegal(b, m)})

push(b, m) == Append(b, m)

\* every move of the stack was legal where it was played
RECURSIVE LegalLine(_)
LegalLine(b) ==
    \/ b = <<>>
    \/ LET prefix == SubSeq(b, 1, Len(b) - 1)
       IN IsLegal(prefix, Last(b)) /\ LegalLine(prefix)

\* ------------------------------------------------------- python sequences
Min(a, b) == IF a <= b THEN a ELSE b
Max(a, b) == IF a >= b THEN a ELSE b

\* s[:n]
SliceTo(s, n) ==
    IF n >= 0 THEN SubSeq(s, 1, Min(n, Len(s)))
    ELSE SubSeq(s, 1, Max(Len(s) + n, 0))

\* s[n:]
SliceFrom(s, n) ==
    IF n >= 0 THEN SubSeq(s, Min(n, Len(s)) + 1, Len(s))
    ELSE SubSeq(s, Max(Len(s) + n, 0) + 1, Len(s))

\* sorted(s, key=lambda e: -e[2]) for a sequence of <<item, key>> pairs: x goes
\* behind every element whose key is at least its own, so the sort is stable
RECURSIVE InsertDesc(_, _)
InsertDesc(sorted, x) ==
    IF sorted = <<>> THEN <<x>>
    ELSE IF Head(sorted)[2] >= x[2]
         THEN <<Head(sorted)>> \o InsertDesc(Tail(sorted), x)
         ELSE <<x>> \o sorted

RECURSIVE SortedDesc(_)
SortedDesc(s) ==
    IF s = <<>> THEN <<>>
    ELSE InsertDesc(SortedDesc(SubSeq(s, 1, Len(s) - 1)), Last(s))

Firsts(s) == [i \in 1..Len(s) |-> s[i][1]]

RECURSIVE SumSeq(_)
SumSeq(s) == IF s = <<>> THEN 0 ELSE Head(s) + SumSeq(Tail(s))

RECURSIVE SumSet(_)
SumSet(S) ==
    IF S = {} THEN 0
    ELSE LET x == CHOOSE y \in S : TRUE IN x + SumSet(S \ {x})

Range(s) == {s[i] : i \in 1..Len(s)}

EmptyDict == [k \in {} |-> 0]

\* dict[key] = value
Put(dict, key, value) ==
    [k \in DOMAIN dict \cup {key} |-> IF k = key THEN value ELSE dict[k]]

\* ------------------------------------------------------------------ state
VARIABLES
    corpus,        \* the explorer's data: position class -> kind of response
    engine,        \* which evaluation stockfish gives
    color,         \* build's color
    max_ply,       \* build's max_ply
    prune_factor,  \* build's prune_factor
    q,             \* the frontier deque, leftmost element first
    terminal,      \* the terminal list
    ply,           \* the last ply build has seen
    best_moves,    \* the best-move dict: board_fen -> move
    pc,            \* where build stands
    board,         \* the node popped by the running iteration
    opp_moves,     \* the opposing moves the for loop has yet to take
    emitted,       \* the games printed so far
    last_prune,    \* the latest prune call: its arguments and results
    last_best,     \* the latest find_best_move call: what it saw and decided
    last_pop,      \* the latest popped node and what became of it
    heuristic_calls, \* board_fen -> find_best_move calls of the for loop
    pushed,        \* the nodes appended to the frontier since the last prune
    call           \* a single call of a statistics function: its frame

vars == <<corpus, engine, color, max_ply, prune_factor, q, terminal, ply,
          best_moves, pc, board, opp_moves, emitted, last_prune, last_best,
          last_pop, heuristic_calls, pushed, call>>

\* ------------------------------------------------------ statistics service
Classes == {0, 1, 2}

Kinds == {"none", "thin", "single", "split", "close", "huge"}

Engines == {"advance", "mirror"}

Class(b) ==
    (SumSet(Played(b, WHITE)) + 2 * SumSet(Played(b, BLACK)) + Aux(b))
        % Cardinality(Classes)

Row(m, white, black, draws) ==
    [uci |-> m, white |-> white, black |-> black, draws |-> draws]

\* the JSON document the explorer holds for a position of the given kind with
\* the given legal moves; its "moves" are moves that were played there, so
\* they are among the legal ones
ResponseOf(kind, legal) ==
    CASE kind = "none" ->
           [white |-> 0, black |-> 0, draws |-> 0, moves |-> <<>>]
      [] kind = "thin" ->
           [white |-> 1, black |-> 1, draws |-> 0,
            moves |-> IF legal = <<>> THEN <<>>
                      ELSE <<Row(Head(legal), 1, 1, 0)>>]
      [] kind = "single" ->
           [white |-> 500, black |-> 300, draws |-> 200,
            moves |-> IF legal = <<>> THEN <<>>
                      ELSE <<Row(Head(legal), 500, 300, 200)>>]
      [] kind = "split" ->
           [white |-> 400, black |-> 350, draws |-> 250,
            moves |-> SelectSeq(<<Row(2, 200, 150, 100), Row(1, 150, 150, 100),
                                  Row(3, 50, 50, 50)>>,
                                LAMBDA r : r.uci \in Range(legal))]
      [] kind = "close" ->
           [white |-> 405, black |-> 355, draws |-> 240,
            moves |-> SelectSeq(<<Row(1, 305, 155, 40), Row(2, 100, 200, 200)>>,
                                LAMBDA r : r.uci \in Range(legal))]
      [] kind = "huge" ->
           [white |-> 120000, black |-> 180000, draws |-> 60000,
            moves |-> SelectSeq(<<Row(1, 50000, 75001, 25000),
                                  Row(2, 30000, 50001, 20000),
                                  Row(4, 40000, 40001, 20000),
                                  Row(3, 10, 5, 5)>>,
                                LAMBDA r : r.uci \in Range(legal))]

get_moves_table_fen(b) == ResponseOf(corpus[Class(b)], legal_moves(b))

\* the table built from the response r, as the ordered list of its items; the
\* share count / total_moves is kept as the pair of its terms
TableOf(r, min_moves) ==
    IF r.white + r.black + r.draws < min_moves THEN <<>>
    ELSE [i \in 1..Len(r.moves) |->
             [move |-> r.moves[i].uci,
              count |-> r.moves[i].white + r.moves[i].black + r.moves[i].draws,
              total |-> r.white + r.black + r.draws]]

get_moves_table(b, min_moves) == TableOf(get_moves_table_fen(b), min_moves)

\* table[k][0] > min_pct or table[k][1] > 100_000, min_pct in hundredths
PassesPct(row, min_pct) ==
    100 * row.count > min_pct * row.total \/ row.count > HugeCount

PassPct(table, min_pct) == SelectSeq(table, LAMBDA r : PassesPct(r, min_pct))

\* sorted(keys, key=lambda k: -table[k][0]): the shares of one table have one
\* denominator, so they are ordered as the counts are
KeysByShare(rows) ==
    Firsts(SortedDesc([i \in 1..Len(rows) |-> <<rows[i].move, rows[i].count>>]))

Keys(rows) == [i \in 1..Len(rows) |-> rows[i].move]

\* a selection without the fallback on the most played moves
OpposingOf_nofallback(table, min_moves, min_pct) ==
    SliceTo(Keys(PassPct(table, min_pct)), OppCap)

\* lines 225-232 on the table of line 223
OpposingOf(table, min_moves, min_pct) ==
    IF Len(PassPct(table, min_pct)) >= min_moves
    THEN SliceTo(Keys(PassPct(table, min_pct)), OppCap)
    ELSE SliceTo(KeysByShare(table), min_moves)

get_opposing_moves(b, min_moves, min_pct) ==
    OpposingOf(get_moves_table(b, OppMinGames), min_moves, min_pct)

\* --------------------------------------------------------------- heuristic
\* the integer square root, by bisection
RECURSIVE Bisect(_, _, _)
Bisect(lo, hi, x) ==
    IF lo >= hi THEN lo
    ELSE IF ((lo + hi + 1) \div 2) * ((lo + hi + 1) \div 2) <= x
         THEN Bisect((lo + hi + 1) \div 2, hi, x)
         ELSE Bisect(lo, (lo + hi + 1) \div 2 - 1, x)

ISqrt(x) == Bisect(0, 2000, x)

\* the Wilson lower bound (a - b) / c in thousandths (z = 1.96): phat in
\* thousandths, the radicand in millionths, every quotient rounded down
WsiOf(phat, total) ==
    (1000 * (phat + 1921 \div total
             - (196 * ISqrt((phat * (1000 - phat) + 960400 \div total)
                            \div total)) \div 100))
        \div (1000 + 3842 \div total)

wsi_lower(wins, total) == WsiOf((1000 * wins) \div total, total)

\* lines 77-83 on the response r of line 75
WinrateOf(r, pov) ==
    IF r.white + r.black + r.draws = 0 THEN 0
    ELSE wsi_lower(IF pov = WHITE THEN r.white ELSE r.black,
                   r.white + r.black + r.draws)

\* a mate counted for the side that is mated
MateValue_swapped(b, pov) == IF turn(b) = pov THEN 1000 ELSE 0

\* line 73: 1.0 if board.turn != pov else 0.0
MateValue(b, pov) == IF turn(b) # pov THEN 1000 ELSE 0

winrate(b, pov) ==
    IF is_checkmate(b) THEN MateValue(b, pov)
    ELSE WinrateOf(get_moves_table_fen(b), pov)

lichess_winrate(b, pov) == winrate(b, pov)

\* winning(board, pov).wdl(model="lichess", ply=board.ply()).winning_chance():
\* what the engine thinks of the position after the move just played
winning_chance(b, pov) ==
    IF engine = "advance" THEN 100 * Aux(b)
    ELSE IF Len(b) >= 2 /\ b[Len(b)] = b[Len(b) - 1] THEN 900
         ELSE 500 - 100 * Aux(b)

\* ---------------------------------------------------------- find_best_move
\* a trigger that fires only when no candidate at all was evaluated
not_enough_candidates_none(moves) == Len(moves) < 1

not_enough_candidates(moves) == Len(moves) < FewCandidates

unusual_drop(top_score, before) == 100 * top_score < DropPct * before

unusually_low(top_score, before) ==
    top_score - before > MarginalGain /\ top_score < AbsoluteFloor

\* lines 106-113 on the table of line 104
CandidatesOf(table) ==
    IF Len(PassPct(table, BestMinPct)) >= PassNeeded
    THEN SliceTo(KeysByShare(PassPct(table, BestMinPct)), TopPassing)
    ELSE SliceTo(KeysByShare(table), TopOverall)

\* lines 115-118: every candidate with the heuristic's value after it
Scored(b, candidates) ==
    [i \in 1..Len(candidates) |->
        <<candidates[i], lichess_winrate(push(b, candidates[i]), turn(b))>>]

\* lines 133-142: every legal move with the engine's winning chance after it
EngineScored(b, legal) ==
    [i \in 1..Len(legal) |->
        <<legal[i], winning_chance(push(b, legal[i]), turn(b))>>]

\* lines 120-123
TopScore(moves) == IF moves = <<>> THEN 0 ELSE SortedDesc(moves)[1][2]

\* line 129
FallsBack(moves, before) ==
    \/ not_enough_candidates(moves)
    \/ unusual_drop(TopScore(moves), before)
    \/ unusually_low(TopScore(moves), before)

\* line 144 on the final list of moves: IndexError when there is none
Outcome(b, before, moves, fallback, pool) ==
    [board |-> b,
     before |-> before,
     evaluated |-> Len(moves),
     top_score |-> TopScore(moves),
     fallback |-> fallback,
     raised |-> pool = <<>>,
     best |-> IF pool = <<>> THEN 0 ELSE SortedDesc(pool)[1][1],
     score |-> IF pool = <<>> THEN 0 ELSE SortedDesc(pool)[1][2]]

\* lines 120-144 on the pre-move value, the scored candidates and the engine's
\* scores of the legal moves
Decide(b, before, moves, sf) ==
    Outcome(b, before, moves, FallsBack(moves, before),
            IF FallsBack(moves, before) THEN moves \o sf ELSE moves)

\* find_best_move(board, heuristic): what the call saw, what it decided and
\* what it returned
find_best_move(b) ==
    Decide(b, lichess_winrate(b, turn(b)),
           Scored(b, CandidatesOf(get_moves_table(b, 0))),
           EngineScored(b, legal_moves(b)))

\* ------------------------------------------------------------------- prune
TotalOf(tbl) == SumSeq([i \in 1..Len(tbl) |-> tbl[i].count])

\* lines 247-248
Total(b) == TotalOf(get_moves_table(b, MinGames))

\* a scan that forgets the duplicates instead of keeping them for the
\* terminal list
ScanStep_drop(acc, b, total) ==
    IF fen(b) \in DOMAIN acc.totals
    THEN acc
    ELSE IF total < PruneMinTotal
         THEN [totals |-> Put(acc.totals, fen(b), total),
               deduped |-> acc.deduped,
               terminal |-> Append(acc.terminal, b)]
         ELSE [totals |-> Put(acc.totals, fen(b), total),
               deduped |-> Append(acc.deduped, b),
               terminal |-> acc.terminal]

\* one turn of the for loop of lines 242-255: the totals dict, deduped and
\* terminal after the node b with the given total
ScanStep(acc, b, total) ==
    IF fen(b) \in DOMAIN acc.totals
    THEN [acc EXCEPT !.terminal = Append(@, b)]
    ELSE IF total < PruneMinTotal
         THEN [totals |-> Put(acc.totals, fen(b), total),
               deduped |-> acc.deduped,
               terminal |-> Append(acc.terminal, b)]
         ELSE [totals |-> Put(acc.totals, fen(b), total),
               deduped |-> Append(acc.deduped, b),
               terminal |-> acc.terminal]

RECURSIVE PruneScan(_)
PruneScan(qq) ==
    IF qq = <<>> THEN [totals |-> EmptyDict, deduped |-> <<>>, terminal |-> <<>>]
    ELSE ScanStep(PruneScan(SubSeq(qq, 1, Len(qq) - 1)), Last(qq), Total(Last(qq)))

\* a cut of the nodes in the order of the scan, without the sort
PruneResult_unsorted(scan, amt) ==
    [q |-> SliceTo(scan.deduped, amt),
     t |-> SliceFrom(scan.deduped, amt) \o scan.terminal]

\* a cut that keeps one node too many
PruneResult_wide(scan, amt) ==
    [q |-> SliceTo(Firsts(SortedDesc([i \in 1..Len(scan.deduped) |->
               <<scan.deduped[i], scan.totals[fen(scan.deduped[i])]>>])), amt + 1),
     t |-> SliceFrom(Firsts(SortedDesc([i \in 1..Len(scan.deduped) |->
               <<scan.deduped[i], scan.totals[fen(scan.deduped[i])]>>])), amt + 1)
           \o scan.terminal]

\* lines 260-264 on the outcome of the for loop
PruneResult(scan, amt) ==
    [q |-> SliceTo(Firsts(SortedDesc([i \in 1..Len(scan.deduped) |->
               <<scan.deduped[i], scan.totals[fen(scan.deduped[i])]>>])), amt),
     t |-> SliceFrom(Firsts(SortedDesc([i \in 1..Len(scan.deduped) |->
               <<scan.deduped[i], scan.totals[fen(scan.deduped[i])]>>])), amt)
           \o scan.terminal]

prune(qq, amt) == PruneResult(PruneScan(qq), amt)

\* ------------------------------------------------------------------- build
\* q.appendleft(x) done at the other end of the deque
appendleft_right(d, x) == Append(d, x)

\* q.appendleft(x)
appendleft(d, x) == <<x>> \o d

\* a pop from the end the nodes are appended to
pop_left(d) == [item |-> Head(d), rest |-> Tail(d)]

\* q.pop(): the rightmost element and what is left of the deque
pop(d) == [item |-> Last(d), rest |-> SubSeq(d, 1, Len(d) - 1)]

\* no statistics function is being followed
NoFrame == [fn |-> "none"]

NoCall ==
    [board |-> <<>>, before |-> 0, evaluated |-> 0, top_score |-> 0,
     fallback |-> FALSE, raised |-> FALSE, best |-> 0, score |-> 0]

Init ==
    /\ corpus \in [Classes -> Kinds]
    /\ engine \in Engines
    /\ color \in Colors
    /\ max_ply \in 1..MaxPlyLimit
    /\ prune_factor \in 0..MaxPruneFactor
    /\ q = <<>>
    /\ terminal = <<>>
    /\ ply = 0
    /\ best_moves = EmptyDict
    /\ pc = "seed"
    /\ board = <<>>
    /\ opp_moves = <<>>
    /\ emitted = <<>>
    /\ last_prune = [seen |-> FALSE, input |-> <<>>, amt |-> 0, q |-> <<>>,
                     t |-> <<>>, cut |-> <<>>]
    /\ last_best = [seen |-> FALSE, cached |-> FALSE, call |-> NoCall]
    /\ last_pop = [seen |-> FALSE, board |-> <<>>, expanded |-> FALSE, opp_moves |-> <<>>]
    /\ heuristic_calls = EmptyDict
    /\ pushed = <<>>
    /\ call = NoFrame

Config == <<corpus, engine, color, max_ply, prune_factor>>

\* lines 274-279: the white repertoire starts from White's best first move
SeedWhite ==
    /\ pc = "seed"
    /\ color = WHITE
    /\ \E found \in {find_best_move(<<>>)} :
          /\ last_best' = [seen |-> TRUE, cached |-> FALSE, call |-> found]
          /\ IF found.raised
             THEN pc' = "raised_best" /\ q' = q /\ pushed' = pushed
             ELSE /\ pc' = "loop"
                  /\ q' = appendleft(q, push(<<>>, found.best))
                  /\ pushed' = Append(pushed, push(<<>>, found.best))
    /\ UNCHANGED <<Config, call, terminal, ply, best_moves, board, opp_moves, emitted,
                   last_prune, last_pop, heuristic_calls>>

\* lines 280-281: the black repertoire starts from the starting position
SeedBlack ==
    /\ pc = "seed"
    /\ color = BLACK
    /\ q' = appendleft(q, <<>>)
    /\ pushed' = Append(pushed, <<>>)
    /\ pc' = "loop"
    /\ UNCHANGED <<Config, call, terminal, ply, best_moves, board, opp_moves, emitted,
                   last_prune, last_best, last_pop, heuristic_calls>>

\* line 283: the frontier is empty, the while loop ends
Drained ==
    /\ pc = "loop"
    /\ q = <<>>
    /\ pc' = "emit"
    /\ UNCHANGED <<Config, call, q, terminal, ply, best_moves, board, opp_moves,
                   emitted, last_prune, last_best, last_pop, heuristic_calls,
                   pushed>>

\* lines 284-290: the ply of the next node differs from the last one seen
Prune ==
    /\ pc = "loop"
    /\ q # <<>>
    /\ ply_of(Last(q)) # ply
    /\ \E amt \in {ply_of(Last(q)) * prune_factor} :
       \E r \in {prune(q, amt)} :
       \E scan \in {PruneScan(q)} :
          /\ ply' = ply_of(Last(q))
          /\ q' = r.q
          /\ terminal' = terminal \o r.t
          /\ last_prune' = [seen |-> TRUE, input |-> q, amt |-> amt,
                            q |-> r.q, t |-> r.t,
                            cut |-> SubSeq(r.t, 1, Len(r.t) - Len(scan.terminal))]
          /\ pushed' = <<>>
          /\ pc' = IF r.q = <<>> THEN "emit" ELSE "pop"
    /\ UNCHANGED <<Config, call, best_moves, board, opp_moves, emitted, last_best,
                   last_pop, heuristic_calls>>

\* a limit that is one ply too generous
BelowLimit_inclusive(b) == ply_of(b) <= max_ply + color

\* a limit that forgets the colour
BelowLimit_nocolor(b) == ply_of(b) < max_ply

\* board.ply() < max_ply + color
BelowLimit(b) == ply_of(b) < max_ply + color

\* line 296: the opposing moves when the condition holds, none when it fails
Expansion(b) ==
    IF BelowLimit(b) THEN get_opposing_moves(b, OppMinMoves, OppMinPct) ELSE <<>>

\* lines 292-296 and 313-314: pop the rightmost node; it is expanded by the for
\* loop, or it goes to the terminal list
Pop ==
    /\ \/ pc = "pop"
       \/ pc = "loop" /\ q # <<>> /\ ply_of(Last(q)) = ply
    /\ \E b \in {pop(q).item} :
       \E opp \in {Expansion(b)} :
          /\ q' = pop(q).rest
          /\ board' = b
          /\ last_pop' = [seen |-> TRUE, board |-> b, expanded |-> opp # <<>>,
                          opp_moves |-> opp]
          /\ opp_moves' = opp
          /\ IF opp # <<>>
             THEN pc' = "branch" /\ terminal' = terminal
             ELSE pc' = "loop" /\ terminal' = Append(terminal, b)
    /\ UNCHANGED <<Config, call, ply, best_moves, emitted, last_prune, last_best,
                   heuristic_calls, pushed>>

\* a lookup that never finds the stored move
Cached_never(key) == FALSE

\* best = best_moves.get(fen); if not best: ...
Cached(key) == key \in DOMAIN best_moves

\* a child pushed without the builder's answer to the reply
PushChild_reply_only(board_copy, best) ==
    /\ q' = appendleft(q, board_copy)
    /\ pushed' = Append(pushed, board_copy)
    /\ opp_moves' = Tail(opp_moves)
    /\ pc' = IF Tail(opp_moves) = <<>> THEN "loop" ELSE "branch"

\* lines 308-312 and the next turn of the for loop
PushChild(board_copy, best) ==
    /\ q' = appendleft(q, push(board_copy, best))
    /\ pushed' = Append(pushed, push(board_copy, best))
    /\ opp_moves' = Tail(opp_moves)
    /\ pc' = IF Tail(opp_moves) = <<>> THEN "loop" ELSE "branch"

\* lines 297-312: one turn of the for loop over the opposing moves
Branch ==
    /\ pc = "branch"
    /\ opp_moves # <<>>
    /\ \E board_copy \in {push(board, Head(opp_moves))} :
       \E key \in {board_fen(board_copy)} :
          IF Cached(key)
          THEN /\ last_best' = [last_best EXCEPT !.cached = TRUE]
               /\ PushChild(board_copy, best_moves[key])
               /\ UNCHANGED <<best_moves, heuristic_calls>>
          ELSE \E found \in {find_best_move(board_copy)} :
               /\ last_best' = [seen |-> TRUE, cached |-> FALSE, call |-> found]
               /\ heuristic_calls' =
                      Put(heuristic_calls, key,
                          IF key \in DOMAIN heuristic_calls
                          THEN heuristic_calls[key] + 1 ELSE 1)
               /\ IF found.raised
                  THEN /\ pc' = "raised_best"
                       /\ UNCHANGED <<q, opp_moves, best_moves, pushed>>
                  ELSE /\ best_moves' = Put(best_moves, key, found.best)
                       /\ PushChild(board_copy, found.best)
    /\ UNCHANGED <<Config, call, terminal, ply, board, emitted, last_prune, last_pop>>

\* lines 317-330: print the game of the next terminal node; b.pop() and
\* moves[0] raise IndexError on an empty move stack
Emit ==
    /\ pc = "emit"
    /\ Len(emitted) < Len(terminal)
    /\ \E i \in {Len(emitted) + 1} :
       \E moves \in {IF turn(terminal[i]) = color
                     THEN SubSeq(terminal[i], 1, Len(terminal[i]) - 1)
                     ELSE terminal[i]} :
          IF moves = <<>>
          THEN /\ pc' = "raised_emit"
               /\ UNCHANGED <<terminal, emitted>>
          ELSE /\ terminal' = [terminal EXCEPT ![i] = moves]
               /\ emitted' = Append(emitted, moves)
               /\ pc' = pc
    /\ UNCHANGED <<Config, call, q, ply, best_moves, board, opp_moves, last_prune,
                   last_best, last_pop, heuristic_calls, pushed>>

\* line 332: every terminal node is printed
Finish ==
    /\ pc = "emit"
    /\ Len(emitted) = Len(terminal)
    /\ pc' = "done"
    /\ UNCHANGED <<Config, call, q, terminal, ply, best_moves, board, opp_moves,
                   emitted, last_prune, last_best, last_pop, heuristic_calls,
                   pushed>>

Next ==
    \/ SeedWhite
    \/ SeedBlack
    \/ Drained
    \/ Prune
    \/ Pop
    \/ Branch
    \/ Emit
    \/ Finish

Spec == Init /\ [][Next]_vars

\* the interpreter runs the next statement as long as there is one
FairSpec == Spec /\ WF_vars(Next)

\* ------------------------------------------- one call of a statistics function
\* The functions get_moves_table, get_opposing_moves and winrate, each followed
\* through one call on an uncached key: the retry loop of get_moves_table_fen
\* with the answers the explorer may give, then the body of the function on
\* what the lookup returned.  The document the explorer holds for the key is
\* drawn from Documents; it lists at most ServiceMoves moves, as the request
\* asks ("moves": 10).
Shapes == {"flat", "mixed", "huge"}

Pcts == {0, 5, 10, 50, 100}

\* the games of the i-th listed move
RowCount(shape, i) ==
    CASE shape = "flat" -> 100
      [] shape = "mixed" -> 50 * (((7 * i) % 11) + 1)
      [] shape = "huge" -> IF i % 2 = 0 THEN 100001 ELSE 10

WideRow(shape, i) ==
    Row(i, RowCount(shape, i) \div 2, RowCount(shape, i) \div 3,
        RowCount(shape, i) - RowCount(shape, i) \div 2 - RowCount(shape, i) \div 3)

\* rsp.json() for a key with n listed moves
Document(shape, n) ==
    [white |-> SumSeq([i \in 1..n |-> WideRow(shape, i).white]),
     black |-> SumSeq([i \in 1..n |-> WideRow(shape, i).black]),
     draws |-> SumSeq([i \in 1..n |-> WideRow(shape, i).draws]),
     moves |-> [i \in 1..n |-> WideRow(shape, i)]]

Documents == {Document(shape, n) : shape \in Shapes, n \in 0..ServiceMoves}

\* positions for winrate: two that are not mate, one with White mated, one
\* with Black mated
Positions == {<<>>, <<4>>, <<4, 4>>, <<1, 4, 4>>}

NoResult == [table |-> <<>>, moves |-> <<>>, value |-> 0]

Frame(fn, b, pov, min_moves, min_pct, doc) ==
    [fn |-> fn, b |-> b, pov |-> pov, min_moves |-> min_moves,
     min_pct |-> min_pct, doc |-> doc, pc |-> "enter", retry_count |-> 0,
     requests |-> 0, slept |-> 0, got |-> "nothing", result |-> NoResult]

Frames ==
    {Frame("get_opposing_moves", <<>>, WHITE, mm, mp, doc) :
        mm \in (-1)..MaxMinMoves, mp \in Pcts, doc \in Documents}
    \cup {Frame("get_moves_table", <<>>, WHITE, mm, 0, doc) :
              mm \in {0, MinGames}, doc \in Documents}
    \cup {Frame(fn, b, pov, 0, 0, doc) :
              fn \in {"winrate", "masters_winrate"}, b \in Positions,
              pov \in Colors, doc \in Documents}

\* build is not running
AtRest ==
    /\ corpus = [c \in Classes |-> "none"]
    /\ engine = "advance"
    /\ color = WHITE
    /\ max_ply = 1
    /\ prune_factor = 0
    /\ q = <<>>
    /\ terminal = <<>>
    /\ ply = 0
    /\ best_moves = EmptyDict
    /\ pc = "idle"
    /\ board = <<>>
    /\ opp_moves = <<>>
    /\ emitted = <<>>
    /\ last_prune = [seen |-> FALSE, input |-> <<>>, amt |-> 0, q |-> <<>>,
                     t |-> <<>>, cut |-> <<>>]
    /\ last_best = [seen |-> FALSE, cached |-> FALSE, call |-> NoCall]
    /\ last_pop = [seen |-> FALSE, board |-> <<>>, expanded |-> FALSE, opp_moves |-> <<>>]
    /\ heuristic_calls = EmptyDict
    /\ pushed = <<>>

Build == <<Config, q, terminal, ply, best_moves, pc, board, opp_moves, emitted,
           last_prune, last_best, last_pop, heuristic_calls, pushed>>

CallInit == AtRest /\ call \in Frames

\* a loop that allows one more turn
MayRetry_more(retry_count) == retry_count <= MaxTries

\* line 163: while retry_count < 3
MayRetry(retry_count) == retry_count < MaxTries

\* the call is one of winrate (lines 63-68)
IsWinrate == call.fn \in {"winrate", "masters_winrate"}

\* lines 72-73: winrate on a checkmate returns without a lookup
WinrateMate ==
    /\ call.pc = "enter"
    /\ IsWinrate
    /\ is_checkmate(call.b)
    /\ call' = [call EXCEPT !.pc = "returned",
                            !.result.value = MateValue(call.b, call.pov)]
    /\ UNCHANGED Build

\* lines 75, 204: get_moves_table_fen(board.fen()) is called; line 162
CallLookup ==
    /\ call.pc = "enter"
    /\ call.fn # "masters_winrate"
    /\ ~(IsWinrate /\ is_checkmate(call.b))
    /\ call' = [call EXCEPT !.pc = "lookup", !.retry_count = 0]
    /\ UNCHANGED Build

\* line 75 with get_masters_table_fen: the masters lookup is called
CallMasters ==
    /\ call.pc = "enter"
    /\ call.fn = "masters_winrate"
    /\ ~is_checkmate(call.b)
    /\ call' = [call EXCEPT !.pc = "masters"]
    /\ UNCHANGED Build

\* lines 192-198: the first or the second request is answered with a document
MastersOk ==
    /\ call.pc = "masters"
    /\ call' = [call EXCEPT !.requests = @ + 1, !.got = "json", !.pc = "body"]
    /\ UNCHANGED Build

\* lines 193-196: the first request is answered with status 429
MastersRateLimited ==
    /\ call.pc = "masters"
    /\ call.retry_count = 0
    /\ call' = [call EXCEPT !.requests = @ + 1, !.slept = @ + RateLimitPause,
                            !.retry_count = 1]
    /\ UNCHANGED Build

\* lines 199-200: a request raises, or the answer to the second one cannot be
\* decoded.  The handler logs rsp: when the first request raised, rsp is
\* unbound and the handler raises UnboundLocalError; otherwise the function
\* ends without a return statement.
MastersFailed ==
    /\ call.pc = "masters"
    /\ call' = IF call.retry_count = 0
               THEN [call EXCEPT !.requests = @ + 1, !.pc = "raised"]
               ELSE [call EXCEPT !.requests = @ + 1, !.got = "None",
                                 !.pc = "body"]
    /\ UNCHANGED Build

\* lines 163-171: the request is answered with a document
RequestOk ==
    /\ call.pc = "lookup"
    /\ MayRetry(call.retry_count)
    /\ call' = [call EXCEPT !.requests = @ + 1, !.got = "json", !.pc = "body"]
    /\ UNCHANGED Build

\* lines 163-169, 178: the request is answered with status 429
RateLimited ==
    /\ call.pc = "lookup"
    /\ MayRetry(call.retry_count)
    /\ call' = [call EXCEPT !.requests = @ + 1, !.slept = @ + RateLimitPause,
                            !.retry_count = @ + 1]
    /\ UNCHANGED Build

\* lines 163-166, 172-178: the request or the decoding of its answer raises
RequestFailed ==
    /\ call.pc = "lookup"
    /\ MayRetry(call.retry_count)
    /\ call' = [call EXCEPT !.requests = @ + 1, !.slept = @ + RetryPause,
                            !.retry_count = @ + 1]
    /\ UNCHANGED Build

\* line 163 fails: the function ends without a return statement
GiveUp ==
    /\ call.pc = "lookup"
    /\ ~MayRetry(call.retry_count)
    /\ call' = [call EXCEPT !.got = "None", !.pc = "body"]
    /\ UNCHANGED Build

\* the body of the function on what the lookup returned: r["white"] raises
\* TypeError when r is None
Body ==
    /\ call.pc = "body"
    /\ IF call.got = "None"
       THEN call' = [call EXCEPT !.pc = "raised"]
       ELSE \E table \in {TableOf(call.doc, IF call.fn = "get_moves_table"
                                            THEN call.min_moves
                                            ELSE OppMinGames)} :
            call' = [call EXCEPT
                        !.pc = "returned",
                        !.result =
                            CASE call.fn = "get_moves_table" ->
                                   [NoResult EXCEPT !.table = table]
                              [] call.fn = "get_opposing_moves" ->
                                   [NoResult EXCEPT
                                       !.table = table,
                                       !.moves = OpposingOf(table, call.min_moves,
                                                            call.min_pct)]
                              [] IsWinrate ->
                                   [NoResult EXCEPT
                                       !.value = WinrateOf(call.doc, call.pov)]]
    /\ UNCHANGED Build

LookupNext ==
    \/ WinrateMate
    \/ CallLookup
    \/ RequestOk
    \/ RateLimited
    \/ RequestFailed
    \/ GiveUp
    \/ Body

CallNext ==
    \/ LookupNext
    \/ CallMasters
    \/ MastersOk
    \/ MastersRateLimited
    \/ MastersFailed

CallSpec == CallInit /\ [][CallNext]_vars

\* the calls of the two functions that call get_moves_table_fen themselves
\* (lines 75 and 204)
LookupInit ==
    AtRest /\ call \in {f \in Frames : f.fn \in {"get_moves_table", "winrate"}}

\* the interpreter runs such a call to its end; sleeps and requests end
LookupSpec == LookupInit /\ [][LookupNext]_vars /\ WF_vars(LookupNext)

\* ------------------------------------------------------------------ claims
Count(x, s) == Cardinality({i \in 1..Len(s) : s[i] = x})

\* the step is the one prune call of an iteration (only it changes ply)
PruneStep == ply' # ply

\* C1: after any prune call no two nodes of the surviving frontier share the
\* same board-only key (board_fen): a transposed node is kept at most once.
C1_SurvivorsDifferInBoardKey ==
    last_prune.seen =>
        \A i, j \in 1..Len(last_prune.q) :
            i # j => board_fen(last_prune.q[i]) # board_fen(last_prune.q[j])

\* C2: every prune call of build is made with target_width = (ply of the node
\* about to be processed) x prune_factor and leaves at most target_width
\* nodes on the frontier, target_width = 0 included.
C2_FrontierWithinTargetWidth ==
    last_prune.seen =>
        /\ last_prune.amt = ply_of(Last(last_prune.input)) * prune_factor
        /\ Len(last_prune.q) <= last_prune.amt
        /\ pc = "pop" => q = last_prune.q /\ Len(q) <= ply * prune_factor

\* a prune call whose width limit has cut nodes off a frontier it did not empty
C2_Witness ==
    /\ last_prune.seen
    /\ last_prune.amt > 0
    /\ Len(last_prune.q) = last_prune.amt
    /\ \E i \in 1..Len(last_prune.t) :
          /\ Total(last_prune.t[i]) >= PruneMinTotal
          /\ \A j \in 1..Len(last_prune.input) :
                fen(last_prune.input[j]) = fen(last_prune.t[i])
                    => last_prune.input[j] = last_prune.t[i]

\* a prune call with target_width = 0 on a frontier of reliable nodes
C2_WitnessZeroWidth ==
    /\ last_prune.seen
    /\ last_prune.amt = 0
    /\ \E i \in 1..Len(last_prune.input) :
          Total(last_prune.input[i]) >= PruneMinTotal

\* C3: prune loses no node: every node of the input frontier is in exactly one
\* of the two results, so len(survivors) + len(discarded) = len(input), and
\* build appends every discarded node to the terminal list.
C3_PruneLosesNoNode ==
    [][PruneStep =>
          /\ last_prune'.input = q
          /\ Len(last_prune'.q) + Len(last_prune'.t) = Len(q)
          /\ \A b \in Range(q) :
                Count(b, last_prune'.q) + Count(b, last_prune'.t) = Count(b, q)
          /\ q' = last_prune'.q
          /\ terminal' = terminal \o last_prune'.t]_vars

\* a prune call that kept some nodes and discarded others, a transposed
\* duplicate among them
C3_Witness ==
    /\ last_prune.seen
    /\ last_prune.q # <<>>
    /\ \E i, j \in 1..Len(last_prune.input) :
          /\ i < j
          /\ fen(last_prune.input[i]) = fen(last_prune.input[j])
          /\ last_prune.input[i] # last_prune.input[j]

\* the while loop has just ended with an empty frontier
LoopExit == pc = "emit" /\ emitted = <<>> /\ q = <<>>

\* build has a next statement to run
Running == pc \in {"seed", "loop", "pop", "branch", "emit"}

\* C4: for either colour, any max_ply, any prune_factor and any statistics the
\* expansion loop of build terminates with the frontier empty: whenever build
\* has stopped, its while loop has ended, and on an empty frontier.
C4_LoopStopsOnlyWhenDrained ==
    ~Running => (pc \in {"done", "raised_emit"} /\ q = <<>>)

\* the frontier nodes on the way to the terminal node t: the seeded node and
\* every second position after it, t included
NodesTo(t) ==
    {SubSeq(t, 1, k) : k \in {j \in color..Len(t) : (Len(t) - j) % 2 = 0}}

\* the statistics offer exactly one plausible reply at b, on reliable data
OneReply(b) ==
    /\ Len(get_opposing_moves(b, OppMinMoves, OppMinPct)) = 1
    /\ Total(b) >= MinGames

OneReplyEverywhere ==
    \A i \in 1..Len(terminal) : \A b \in NodesTo(terminal[i]) : OneReply(b)

\* the ply at which a line stops: the first ply of the builder's frontier
\* (odd for White, even for Black) that is not below max_ply + color
StopPly == CHOOSE p \in {max_ply + color, max_ply + color + 1} : p % 2 = color

\* C5 as stated: with exactly one plausible opponent reply at every position
\* a build with maximum ply N ends with exactly one terminal line of exactly N
\* moves, whichever colour the repertoire is built for.
C5_OneLineOfMaxPly ==
    (LoopExit /\ OneReplyEverywhere) =>
        Len(terminal) = 1 /\ Len(terminal[1]) = max_ply

\* C5 amended: with exactly one plausible opponent reply at every position
\* and prune_factor >= 1 the build ends with exactly one terminal line, which
\* stops at the first ply of the builder's frontier at or above
\* max_ply + color: N moves for Black and even N (N + 1 for odd N), N + 1
\* moves for White and even N (N + 2 for odd N).
C5_OneLineToStopPly ==
    (LoopExit /\ OneReplyEverywhere /\ prune_factor >= 1) =>
        /\ Len(terminal) = 1
        /\ Len(terminal[1]) = StopPly
        /\ (color = BLACK /\ max_ply % 2 = 0) => Len(terminal[1]) = max_ply

\* the spec's scenario: Black, maximum ply 2, one reply everywhere
C5_Witness ==
    /\ LoopExit
    /\ OneReplyEverywhere
    /\ prune_factor >= 1
    /\ color = BLACK
    /\ max_ply = 2
    /\ Len(terminal) = 1
    /\ Len(terminal[1]) = 2

\* the step pops a node (lines 292-296, 313-314)
PopStep == pc \in {"pop", "loop"} /\ pc' \in {"branch", "loop"}

\* C6 as stated: a popped node is expanded iff its ply is below max_ply and
\* get_opposing_moves is non-empty for it; otherwise it goes to the terminal
\* list and gets no children.
C6_ExpandedIffBelowMaxPly ==
    [][PopStep =>
          IF /\ ply_of(Last(q)) < max_ply
             /\ get_opposing_moves(Last(q), OppMinMoves, OppMinPct) # <<>>
          THEN pc' = "branch" /\ terminal' = terminal
          ELSE /\ pc' = "loop"
               /\ terminal' = Append(terminal, Last(q))
               /\ q' = SubSeq(q, 1, Len(q) - 1)]_vars

\* C6 amended: a popped node is expanded iff its ply is below max_ply + color
\* (color = 1 for White, 0 for Black) and get_opposing_moves is non-empty for
\* it; otherwise it goes to the terminal list and gets no children.  No node
\* of ply >= max_ply is expanded for Black, none of ply > max_ply for White.
C6_ExpandedIffBelowColourLimit ==
    [][PopStep =>
          IF /\ ply_of(Last(q)) < max_ply + color
             /\ get_opposing_moves(Last(q), OppMinMoves, OppMinPct) # <<>>
          THEN /\ pc' = "branch"
               /\ terminal' = terminal
               /\ opp_moves' = get_opposing_moves(Last(q), OppMinMoves, OppMinPct)
               /\ board' = Last(q)
               /\ color = BLACK => ply_of(Last(q)) < max_ply
               /\ color = WHITE => ply_of(Last(q)) <= max_ply
          ELSE /\ pc' = "loop"
               /\ terminal' = Append(terminal, Last(q))
               /\ q' = SubSeq(q, 1, Len(q) - 1)]_vars

\* a White node of ply max_ply that has been expanded
C6_Witness ==
    /\ last_pop.seen
    /\ last_pop.expanded
    /\ color = WHITE
    /\ ply_of(last_pop.board) = max_ply
    /\ pc = "loop"
    /\ \E i \in 1..Len(q) : Len(q[i]) = max_ply + 2

\* C7: the best-move dict is write-once and read before computing: a stored
\* best move is never overwritten, find_best_move is called at most once per
\* board-only key in the for loop, and a child whose key is stored gets the
\* stored move without a call.
C7_BestMovesWriteOnce ==
    [][/\ \A k \in DOMAIN best_moves :
             k \in DOMAIN best_moves' /\ best_moves'[k] = best_moves[k]
       /\ \A k \in DOMAIN heuristic_calls' : heuristic_calls'[k] <= 1
       /\ (pc = "branch" /\ board_fen(push(board, Head(opp_moves)))
                               \in DOMAIN best_moves) =>
             /\ heuristic_calls' = heuristic_calls
             /\ q' = <<push(push(board, Head(opp_moves)),
                            best_moves[board_fen(push(board, Head(opp_moves)))])>>
                     \o q]_vars

\* a child took its move from the dict: its position is a transposition of
\* the one the move was computed for
C7_Witness ==
    /\ last_best.seen
    /\ last_best.cached
    /\ q # <<>>
    /\ LET child == Head(q)
           parent == SubSeq(child, 1, Len(child) - 1)
       IN /\ board_fen(parent) = board_fen(last_best.call.board)
          /\ parent # last_best.call.board
          /\ Last(child) = last_best.call.best

\* C8: every terminal node's move stack is a legal sequence from the starting
\* position, a best move read from the best-move dict included.
C8_TerminalLinesLegal == \A i \in 1..Len(terminal) : LegalLine(terminal[i])

\* C9: find_best_move falls back on the engine (every legal move is scored by
\* the engine and joins the pool the best move is taken from) whenever fewer
\* than 2 statistical candidates were evaluated.
C9_FewCandidatesFallBack ==
    last_best.seen =>
        (last_best.call.evaluated < 2 =>
            /\ last_best.call.fallback
            /\ \A m \in Range(legal_moves(last_best.call.board)) :
                  /\ ~last_best.call.raised
                  /\ last_best.call.score >=
                         winning_chance(push(last_best.call.board, m),
                                        turn(last_best.call.board)))

\* a call with exactly one candidate, where neither of the other two triggers
\* holds
C9_Witness ==
    /\ last_best.seen
    /\ last_best.call.evaluated = 1
    /\ last_best.call.fallback
    /\ ~(100 * last_best.call.top_score < 95 * last_best.call.before)
    /\ ~(/\ last_best.call.top_score - last_best.call.before > 10
         /\ last_best.call.top_score < 450)

\* C10: with at least 2 candidates evaluated and no relative drop,
\* find_best_move falls back exactly when top_score exceeds `before` by less
\* than 0.01 while top_score is below 0.45; a top_score more than 0.01 above
\* `before` does not fall back.
C10_FallsBackOnMarginalGain ==
    last_best.seen =>
        ((/\ last_best.call.evaluated >= 2
          /\ ~(100 * last_best.call.top_score < 95 * last_best.call.before))
         => (last_best.call.fallback <=>
                /\ last_best.call.top_score > last_best.call.before
                /\ last_best.call.top_score - last_best.call.before < 10
                /\ last_best.call.top_score < 450))

\* the counts of a table by move
CountOf(table, m) == (CHOOSE r \in Range(table) : r.move = m).count

\* a call of get_opposing_moves has returned
OpposingReturned == call.fn = "get_opposing_moves" /\ call.pc = "returned"

\* C11: get_opposing_moves(board, min_moves, min_pct) never returns more than
\* 10 moves; whenever the table has at least min_moves entries it returns at
\* least min_moves moves; and if fewer than min_moves moves pass the filter,
\* the result is the top min_moves moves of the table by share.
C11_OpposingMovesBounded ==
    OpposingReturned =>
        LET table == TableOf(call.doc, 200)
            moves == call.result.moves
        IN /\ Len(moves) <= 10
           /\ Len(table) >= call.min_moves => Len(moves) >= call.min_moves
           /\ Len(PassPct(table, call.min_pct)) < call.min_moves =>
                 /\ Len(moves) = Min(call.min_moves, Len(table))
                 /\ Cardinality(Range(moves)) = Len(moves)
                 /\ Range(moves) \subseteq Range(Keys(table))
                 /\ \A out \in Range(Keys(table)) \ Range(moves) :
                       \A in \in Range(moves) :
                          CountOf(table, out) <= CountOf(table, in)

\* a call on a full table of which too few moves pass the filter: the result
\* is min_moves moves, some of which failed the filter, and leaves moves out
C11_Witness ==
    /\ OpposingReturned
    /\ Len(TableOf(call.doc, 200)) = 10
    /\ call.min_moves >= 2
    /\ Len(PassPct(TableOf(call.doc, 200), call.min_pct)) \in 1..(call.min_moves - 1)
    /\ Len(call.result.moves) = call.min_moves
    /\ Len(call.result.moves) < 10

\* what the retry loop may have slept after the given number of failures
Pauses(failures) ==
    {RateLimitPause * a + RetryPause * (failures - a) : a \in 0..failures}

\* the lookup of the call has returned to the function that made it
LookupReturned == call.got # "nothing"

\* C12: a lookup for an uncached key makes at most 3 requests: each rate-limit
\* answer or error is followed by a cool-down of fixed length and a retry, a
\* document ends the loop at once, and after the third failure the lookup
\* stops and returns to its caller; every lookup returns.
C12_AtMostThreeRequests ==
    /\ [](/\ call.requests <= 3
          /\ call.slept \in Pauses(call.retry_count)
          /\ call.got = "nothing" => call.requests = call.retry_count
          /\ call.got = "json" => call.requests = call.retry_count + 1
          /\ call.got = "None" => call.requests = 3 /\ call.retry_count = 3)
    /\ [][LookupReturned => call'.requests = call.requests]_vars
    /\ (call.pc = "lookup") ~> LookupReturned

\* a lookup that gave up after three failures of both kinds
C12_Witness ==
    /\ call.got = "None"
    /\ call.requests = 3
    /\ call.slept = 2 * RateLimitPause + RetryPause

\* C13: when a lookup exhausts its retries (or the masters lookup fails), the
\* callers get_moves_table and winrate take the result as zero evidence (an
\* empty table, a win probability of 0.0) and return normally: the failed
\* lookup raises nothing.
C13_FailedLookupIsZeroEvidence ==
    /\ (call.got = "None" /\ call.pc # "body") =>
           call.pc = "returned" /\ call.result = NoResult
    /\ call.pc # "raised"

\* all the games of a document
Games(doc) == doc.white + doc.black + doc.draws

\* C14: winrate never raises on degenerate data: on a checkmate it returns 1.0
\* when the side to move is not pov and 0.0 when it is, in both cases without
\* a request to the service, and on a position that is not checkmate for
\* which the service reports zero games it returns 0.0.
C14_WinrateSpecialCases ==
    IsWinrate =>
        /\ is_checkmate(call.b) =>
              /\ call.requests = 0
              /\ call.pc \in {"enter", "returned"}
              /\ call.pc = "returned" =>
                    call.result.value = (IF turn(call.b) = call.pov THEN 0 ELSE 1000)
        /\ (call.got = "json" /\ call.pc # "body") =>
              /\ call.pc = "returned"
              /\ ~is_checkmate(call.b)
              /\ Games(call.doc) = 0 => call.result.value = 0
              /\ call.result.value <= 1000

\* winrate has returned 1.0 for the side that gave mate, with no request made
C14_Witness ==
    /\ IsWinrate
    /\ call.pc = "returned"
    /\ is_checkmate(call.b)
    /\ turn(call.b) # call.pov
    /\ call.result.value = 1000
    /\ call.requests = 0

\* winrate has returned 0.0 for a position without games
C14_WitnessNoGames ==
    /\ IsWinrate
    /\ call.pc = "returned"
    /\ ~is_checkmate(call.b)
    /\ Games(call.doc) = 0
    /\ call.result.value = 0
    /\ call.requests > 0

\* C15: when the position reached after an opponent reply has no candidate
\* and no legal move, that branch is retired to the terminal list and the
\* build goes on with the rest of the frontier; the run does not abort.
C15_DeadBranchRetired ==
    (/\ last_best.seen
     /\ last_best.call.evaluated = 0
     /\ legal_moves(last_best.call.board) = <<>>) =>
        /\ ~last_best.call.raised
        /\ pc # "raised_best"
        /\ last_best.call.board \in Range(terminal) \cup Range(emitted)

\* C16 as stated: the frontier is processed last-in-first-out: between two
\* prune operations the node popped next is always the node most recently
\* pushed onto the frontier.
C16_PopsMostRecentlyPushed ==
    [][(PopStep /\ pushed # <<>>) => board' = Last(pushed)]_vars

\* C16 amended: the frontier is processed first-in-first-out: nodes are pushed
\* on the left and popped from the right, so while a survivor of the last
\* prune is on the frontier no node pushed since that prune is popped, and
\* the survivors are popped lowest sample weight first; a node pushed since
\* the last prune is popped only when nothing older is left, oldest first.
C16_PopsOldestFirst ==
    [][PopStep =>
          /\ board' \in Range(q)
          /\ (Range(q) \ Range(pushed) # {}) =>
                /\ board' \notin Range(pushed)
                /\ \A x \in Range(q) \ Range(pushed) : Total(board') <= Total(x)
          /\ (Range(q) \subseteq Range(pushed)) => board' = Head(pushed)
          /\ Range(q') = Range(q) \ {board'}]_vars

\* a node has just been popped while the children of an earlier node, pushed
\* since the last prune, wait on the frontier
C16_Witness ==
    /\ pc = "branch"
    /\ opp_moves = last_pop.opp_moves
    /\ board = last_pop.board
    /\ pushed # <<>>
    /\ Range(pushed) \subseteq Range(q)
    /\ board \notin Range(pushed)
    /\ \E x \in Range(q) \ Range(pushed) : Total(x) > Total(board)

\* C17: after the frontier drains build emits exactly one game record per
\* node of the terminal list, in the order of the list, whatever the list is,
\* the list whose only node is the seeded root with its empty move stack
\* included.
C17_OneRecordPerTerminalNode ==
    pc \in {"done", "raised_emit"} =>
        /\ pc = "done"
        /\ Len(emitted) = Len(terminal)
        /\ \A i \in 1..Len(terminal) : emitted[i] = terminal[i]

\* C18: after any prune call every surviving node has a total sample weight
\* of at least 200, and no node discarded by the width limit has a larger
\* weight than any surviving node: the survivors are the top target_width
\* nodes by weight among the deduplicated, reliable nodes.
C18_SurvivorsReliableAndHeaviest ==
    last_prune.seen =>
        /\ \A i \in 1..Len(last_prune.q) : Total(last_prune.q[i]) >= 200
        /\ \A i \in 1..Len(last_prune.cut) : Total(last_prune.cut[i]) >= 200
        /\ \A i \in 1..Len(last_prune.cut) : \A j \in 1..Len(last_prune.q) :
              Total(last_prune.cut[i]) <= Total(last_prune.q[j])
        /\ Len(last_prune.q) =
               Min(last_prune.amt, Len(last_prune.q) + Len(last_prune.cut))
        /\ Len(last_prune.t) >= Len(last_prune.cut)
        /\ \A i \in 1..Len(last_prune.cut) : last_prune.t[i] = last_prune.cut[i]

\* a prune call that kept the heaviest nodes and cut a lighter one by the
\* width limit
C18_Witness ==
    /\ last_prune.seen
    /\ last_prune.q # <<>>
    /\ \E i \in 1..Len(last_prune.cut) : \E j \in 1..Len(last_prune.q) :
          Total(last_prune.cut[i]) < Total(last_prune.q[j])

\* a prune call that kept some nodes and retired an unreliable one
C18_WitnessUnreliable ==
    /\ last_prune.seen
    /\ last_prune.q # <<>>
    /\ \E i \in 1..Len(last_prune.t) : Total(last_prune.t[i]) < 200

\* C19: the plies of successively popped nodes never decrease, and at each
\* prune call all the nodes of the frontier have the same ply: prune runs at
\* most once per ply value and never compares the sample weights of nodes of
\* different plies.
C19_PliesNeverDecrease ==
    [][/\ PopStep =>
             /\ last_pop.seen => ply_of(board') >= ply_of(last_pop.board)
             /\ \A x \in Range(q) : ply_of(x) >= ply_of(board')
       /\ PruneStep =>
             /\ \A x \in Range(q) : ply_of(x) = ply'
             /\ ply' > ply
             /\ last_prune'.input = q]_vars

\* a prune call on a frontier of several nodes, after nodes of a lower ply
\* have been popped
C19_Witness ==
    /\ last_prune.seen
    /\ Len(last_prune.input) >= 2
    /\ last_pop.seen
    /\ ply_of(last_pop.board) < ply
    /\ pc = "pop"

\* C20: every node placed on the frontier or in the terminal list has the
\* opponent, not the builder's colour, to move; so the retraction of the
\* emission loop (pop when the side to move is the builder's) never fires and
\* every emitted non-empty line ends with a move of the builder's own side.
C20_OpponentToMove ==
    /\ [](/\ \A x \in Range(q) \cup Range(terminal) : turn(x) # color
          /\ \A i \in 1..Len(emitted) :
                /\ emitted[i] # <<>>
                /\ Len(emitted[i]) % 2 = color
                /\ emitted[i] = terminal[i])
    /\ [][pc = "emit" => terminal' = terminal]_vars

\* a White build has printed several lines, each ending with a move of White
C20_Witness ==
    /\ pc = "done"
    /\ color = WHITE
    /\ Len(emitted) >= 2
    /\ \E i \in 1..Len(emitted) : Len(emitted[i]) >= 3

====
